---- MODULE Spec2Model ----
(***************************************************************************)
(* Model of yedis/client.py: the time conversion helpers, the response     *)
(* decoder timeseries_time_value_pairs and the Yedis command adapter.      *)
(*                                                                         *)
(* Python floats are IEEE-754 binary64 values.  They are modelled exactly: *)
(* a finite float is sign * mantissa * 2^exponent with a 53 bit mantissa   *)
(* held as a little-endian sequence of base 2^14 limbs, and every float    *)
(* operation rounds to nearest, ties to even, as the hardware does.        *)
(***************************************************************************)
EXTENDS Integers, Sequences, FiniteSets, TLC

(***************************************************************************)
(* Arbitrary precision naturals (little-endian limbs, no leading zeros).   *)
(***************************************************************************)
\* limbs hold 14 bits, so that a column of limb products stays below 2^31
Base == 2^14

MantBits == 53

RECURSIVE Strip(_)
Strip(a) ==
    IF a = <<>> THEN <<>>
    ELSE IF a[Len(a)] = 0 THEN Strip(SubSeq(a, 1, Len(a) - 1))
    ELSE a

RECURSIVE Carry(_, _, _)
Carry(cols, i, c) ==
    IF i > Len(cols)
    THEN IF c = 0 THEN <<>> ELSE <<c % Base>> \o Carry(cols, i, c \div Base)
    ELSE LET v == cols[i] + c
         IN  <<v % Base>> \o Carry(cols, i + 1, v \div Base)

BigFromInt(n) == Strip(Carry(<<n>>, 1, 0))

RECURSIVE BigToInt(_)
BigToInt(a) ==
    IF a = <<>> THEN 0 ELSE a[1] + Base * BigToInt(Tail(a))

RECURSIVE ColSum(_, _, _, _)
ColSum(a, b, k, i) ==
    IF i > Len(a) THEN 0
    ELSE (IF k - i + 1 >= 1 /\ k - i + 1 <= Len(b) THEN a[i] * b[k - i + 1] ELSE 0)
         + ColSum(a, b, k, i + 1)

BigMul(a, b) ==
    IF a = <<>> \/ b = <<>> THEN <<>>
    ELSE Strip(Carry([k \in 1..(Len(a) + Len(b) - 1) |-> ColSum(a, b, k, 1)], 1, 0))

BigAddSmall(a, k) ==
    IF a = <<>> THEN BigFromInt(k)
    ELSE Strip(Carry([i \in 1..Len(a) |-> IF i = 1 THEN a[1] + k ELSE a[i]], 1, 0))

RECURSIVE SmallBitLen(_)
SmallBitLen(n) == IF n = 0 THEN 0 ELSE 1 + SmallBitLen(n \div 2)

BitLen(a) ==
    IF a = <<>> THEN 0 ELSE (Len(a) - 1) * 14 + SmallBitLen(a[Len(a)])

BigBit(a, i) ==
    IF i < 0 \/ i \div 14 + 1 > Len(a) THEN 0
    ELSE (a[i \div 14 + 1] \div 2^(i % 14)) % 2

\* floor(a / 2^s)
BigShr(a, s) ==
    LET q == s \div 14
        r == s % 14
    IN  IF q >= Len(a) THEN <<>>
        ELSE Strip([j \in 1..(Len(a) - q) |->
                 (a[j + q] \div 2^r)
                 + (IF j + q + 1 <= Len(a)
                    THEN (a[j + q + 1] % 2^r) * 2^(14 - r)
                    ELSE 0)])

\* a * 2^s
BigShl(a, s) ==
    LET q == s \div 14
        r == s % 14
    IN  BigMul(a, [j \in 1..(q + 1) |-> IF j = q + 1 THEN 2^r ELSE 0])

\* a mod 2^s
BigLow(a, s) ==
    LET q == s \div 14
        r == s % 14
    IN  IF q >= Len(a) THEN a
        ELSE Strip([j \in 1..(q + 1) |-> IF j = q + 1 THEN a[j] % 2^r ELSE a[j]])

\* quotient and remainder of a by a small divisor d (d < 2^17), most
\* significant limb first
RECURSIVE DivSmall(_, _, _, _)
DivSmall(a, d, i, r) ==
    IF i = 0 THEN [q |-> <<>>, r |-> r]
    ELSE LET rest == DivSmall(a, d, i - 1, (r * Base + a[i]) % d)
         IN  [q |-> rest.q \o <<(r * Base + a[i]) \div d>>, r |-> rest.r]

StripQuotient(qr) == [q |-> Strip(qr.q), r |-> qr.r]

BigDivSmall(a, d) == StripQuotient(DivSmall(a, d, Len(a), 0))

(***************************************************************************)
(* IEEE-754 binary64.  A float is [t |-> "float", s, m, e]: s is 1 or -1,  *)
(* m the mantissa (exactly MantBits bits, or <<>> for zero), value         *)
(* s * m * 2^e.  Exponent range limits are never reached by the values     *)
(* used here (|value| between 2^-20 and 2^40).                             *)
(***************************************************************************)
FZero == [t |-> "float", s |-> 1, m |-> <<>>, e |-> 0]

\* a mantissa q of 53 or 54 bits as a float
FNormal(s, q, e) ==
    IF BitLen(q) > MantBits
    THEN [t |-> "float", s |-> s, m |-> BigShr(q, 1), e |-> e + 1]
    ELSE [t |-> "float", s |-> s, m |-> q, e |-> e]

\* drop the low sh bits of m, rounding to nearest, ties to even
FRoundShift(s, m, e, sticky, sh) ==
    FNormal(s,
            IF BigBit(m, sh - 1) = 1
               /\ (sticky \/ BigLow(m, sh - 1) # <<>> \/ BigBit(m, sh) = 1)
            THEN BigAddSmall(BigShr(m, sh), 1)
            ELSE BigShr(m, sh),
            e + sh)

FRoundLen(s, m, e, sticky, L) ==
    IF L = 0 THEN FZero
    ELSE IF L <= MantBits
    THEN [t |-> "float", s |-> s, m |-> BigShl(m, MantBits - L), e |-> e - (MantBits - L)]
    ELSE FRoundShift(s, m, e, sticky, L - MantBits)

\* round s * m * 2^e (plus a nonzero tail below the last bit of m when
\* sticky) to 53 bits, to nearest, ties to even
FRound(s, m, e, sticky) == FRoundLen(s, m, e, sticky, BitLen(m))

Abs(n) == IF n < 0 THEN -n ELSE n

Sign(n) == IF n < 0 THEN -1 ELSE 1

\* float(n) for a Python int n
IntToFloat(n) == FRound(Sign(n), BigFromInt(Abs(n)), 0, FALSE)

\* x * y on floats
FMul(x, y) == FRound(x.s * y.s, BigMul(x.m, y.m), x.e + y.e, FALSE)

RECURSIVE OddPart(_)
OddPart(d) == IF d % 2 = 0 THEN OddPart(d \div 2) ELSE d

RECURSIVE TwoExp(_)
TwoExp(d) == IF d % 2 = 0 THEN 1 + TwoExp(d \div 2) ELSE 0

\* the correctly rounded quotient s * mag / d of an integer by a positive
\* integer d (Python's int / int, and the value of a decimal literal)
FromQuotient(s, qr, e) == FRound(s, qr.q, e, qr.r # 0)

BigTrueDiv(s, mag, d) ==
    FromQuotient(s, BigDivSmall(BigShl(mag, 70), OddPart(d)), 0 - 70 - TwoExp(d))

\* int(x): truncation toward zero
FTrunc(x) ==
    IF x.m = <<>> THEN 0
    ELSE IF x.e >= 0 THEN x.s * BigToInt(BigShl(x.m, x.e))
    ELSE x.s * BigToInt(BigShr(x.m, 0 - x.e))

\* the fractional part of modf(x), which is exact
FFrac(x) ==
    IF x.m = <<>> \/ x.e >= 0 THEN FZero
    ELSE FRound(x.s, BigLow(x.m, 0 - x.e), x.e, FALSE)

\* round(x) to an integer, ties to even
FRoundHalfEven(x) ==
    IF x.m = <<>> THEN 0
    ELSE IF x.e >= 0 THEN x.s * BigToInt(BigShl(x.m, x.e))
    ELSE x.s * (BigToInt(BigShr(x.m, 0 - x.e))
                + (IF BigBit(x.m, 0 - x.e - 1) = 1
                      /\ (BigLow(x.m, 0 - x.e - 1) # <<>> \/ BigBit(x.m, 0 - x.e) = 1)
                   THEN 1 ELSE 0))

\* the literal 1e-3, the float nearest to 1/1000: 0x1.0624dd2f1a9fcp-10
F1em3 == [t |-> "float", s |-> 1, m |-> <<10748, 3014, 9437, 1048>>, e |-> -62]

\* the literal 1e3 (and the int 1000 as a float): 1000 * 2^43 * 2^-43
F1e3 == [t |-> "float", s |-> 1, m |-> <<0, 0, 0, 2000>>, e |-> -43]

\* the microseconds per second of datetime.fromtimestamp: 10^6 as a float
F1e6 == [t |-> "float", s |-> 1, m |-> <<0, 0, 2048, 1953>>, e |-> -33]

(***************************************************************************)
(* Python values.  Every value is a record tagged by its type in field t.  *)
(***************************************************************************)
None == [t |-> "None"]

PyInt(n) == [t |-> "int", n |-> n]

\* a text string; the model uses only strings that are not numerals
PyStr(c) == [t |-> "str", c |-> c]

\* a byte string, as the characters it holds
PyBytes(cs) == [t |-> "bytes", b |-> cs]

PyBool(b) == [t |-> "bool", bv |-> b]

PyList(xs) == [t |-> "list", items |-> xs]

PyTuple(xs) == [t |-> "tuple", items |-> xs]

\* an exception in flight
Raise(name) == [t |-> "raise", exc |-> name]

IsRaise(x) == x.t = "raise"

\* float('-inf') and float('inf')
m_inf == [t |-> "inf", s |-> -1]

p_inf == [t |-> "inf", s |-> 1]

\* isinstance(x, float)
IsFloat(x) == x.t \in {"float", "inf"}

\* math.isinf(x) for a float x
isinf(x) == x.t = "inf"

\* a datetime: sec whole seconds and us microseconds of local wall time
\* counted from 1970-01-01 00:00:00, tz the tzinfo ("naive" when None)
Datetime(sec, us, tz) == [t |-> "datetime", sec |-> sec, us |-> us, tz |-> tz]

\* fixed-offset timezones, with their utcoffset in seconds
Zones == {"UTC", "CET", "EST"}

UtcOffset(tz) ==
    CASE tz = "UTC" -> 0
      [] tz = "CET" -> 3600
      [] tz = "EST" -> 0 - 18000

\* timedelta.total_seconds() of the timedelta sec seconds + us microseconds
\* (0 <= us < 10^6): the integer count of microseconds / 10^6
TotalSeconds(sec, us) ==
    BigTrueDiv(Sign(sec),
               BigAddSmall(BigMul(BigFromInt(IF sec >= 0 THEN sec
                                             ELSE IF us = 0 THEN 0 - sec ELSE 0 - sec - 1),
                                  BigFromInt(1000000)),
                           IF sec >= 0 \/ us = 0 THEN us ELSE 1000000 - us),
               1000000)

\* datetime.datetime.fromtimestamp(x, tz) for a float x: the seconds are
\* split by modf, the fraction is scaled to microseconds and rounded half
\* to even, and the UTC time is moved to the zone
FromParts(intpart, us, tz) ==
    Datetime((IF us >= 1000000 THEN intpart + 1
              ELSE IF us < 0 THEN intpart - 1 ELSE intpart) + UtcOffset(tz),
             IF us >= 1000000 THEN us - 1000000
             ELSE IF us < 0 THEN us + 1000000 ELSE us,
             tz)

FromTimestamp(x, tz) == FromParts(FTrunc(x), FRoundHalfEven(FMul(FFrac(x), F1e6)), tz)

\* int(x) for an int or a string of decimal digits with an optional sign
DigitVal(c) ==
    CASE c = "0" -> 0 [] c = "1" -> 1 [] c = "2" -> 2 [] c = "3" -> 3
      [] c = "4" -> 4 [] c = "5" -> 5 [] c = "6" -> 6 [] c = "7" -> 7
      [] c = "8" -> 8 [] c = "9" -> 9 [] OTHER -> -1

RECURSIVE ParseDigits(_, _)
ParseDigits(cs, acc) ==
    IF cs = <<>> THEN acc
    ELSE IF DigitVal(Head(cs)) < 0 THEN -1
    ELSE ParseDigits(Tail(cs), 10 * acc + DigitVal(Head(cs)))

Signed(neg, n) ==
    IF n < 0 THEN Raise("ValueError") ELSE PyInt(IF neg THEN 0 - n ELSE n)

ParseUnsigned(body) == IF body = <<>> THEN -1 ELSE ParseDigits(body, 0)

ParseInt(cs) ==
    IF cs # <<>> /\ Head(cs) = "-" THEN Signed(TRUE, ParseUnsigned(Tail(cs)))
    ELSE Signed(FALSE, ParseUnsigned(cs))

int(x) ==
    CASE x.t = "int" -> x
      [] x.t = "bool" -> PyInt(IF x.bv THEN 1 ELSE 0)
      [] x.t = "float" -> PyInt(FTrunc(x))
      [] x.t = "inf" -> Raise("OverflowError")
      [] x.t = "bytes" -> ParseInt(x.b)
      [] x.t = "str" -> Raise("ValueError")
      [] OTHER -> Raise("TypeError")

(***************************************************************************)
(* The time conversion helpers.                                            *)
(***************************************************************************)
\* DatetimeToTimestamp.__init__: the instance, with its field _tz
DatetimeToTimestamp(tz) ==
    [t |-> "callable", f |-> "DatetimeToTimestamp", tz |-> IF tz = "None" THEN "UTC" ELSE tz]

\* DatetimeToTimestamp.__call__
DatetimeToTimestampCall(self, tm) ==
    IF tm.t # "datetime" THEN Raise("AttributeError")
    ELSE LET t == IF tm.tz = "naive" THEN [tm EXCEPT !.tz = self.tz] ELSE tm
         IN  PyInt(FTrunc(FMul(TotalSeconds(t.sec - UtcOffset(t.tz), t.us), F1e3)))

unixtime_to_timestamp(tm) ==
    CASE tm.t = "float" -> PyInt(FTrunc(FMul(tm, F1e3)))
      [] tm.t = "int" -> PyInt(tm.n * 1000)
      [] tm.t = "inf" -> Raise("OverflowError")
      [] tm.t \in {"bytes", "str"} -> Raise("ValueError")
      [] OTHER -> Raise("TypeError")

\* n * 1e-3 for the outcome n of int(ts)
TimesMilli(n) == IF IsRaise(n) THEN n ELSE FMul(IntToFloat(n.n), F1em3)

timestamp_to_unix(ts) == TimesMilli(int(ts))

\* TimestampToDatetime.__init__
TimestampToDatetime(tz) ==
    [t |-> "callable", f |-> "TimestampToDatetime", tz |-> IF tz = "None" THEN "UTC" ELSE tz]

\* TimestampToDatetime.__call__
\* fromtimestamp(x, tz) for the outcome x of timestamp_to_unix(ts)
FromUnix(x, tz) == IF IsRaise(x) THEN x ELSE FromTimestamp(x, tz)

TimestampToDatetimeCall(self, ts) == FromUnix(timestamp_to_unix(ts), self.tz)

\* a module-level function or builtin used as a cast
Function(name) == [t |-> "callable", f |-> name]

\* f(x) for the callables above
Apply(f, x) ==
    CASE f.f = "DatetimeToTimestamp" -> DatetimeToTimestampCall(f, x)
      [] f.f = "TimestampToDatetime" -> TimestampToDatetimeCall(f, x)
      [] f.f = "unixtime_to_timestamp" -> unixtime_to_timestamp(x)
      [] f.f = "timestamp_to_unix" -> timestamp_to_unix(x)
      [] f.f = "int" -> int(x)

\* variant: __call__ caches a zone in the instance
SelfAfterCallCaching(self, x) == [self EXCEPT !.tz = "CET"]

\* the converter instance after one __call__: neither __call__ assigns an
\* attribute of self
SelfAfterCall(self, x) == self

(***************************************************************************)
(* Keyword arguments: a function from the names given to their values.     *)
(***************************************************************************)
NoOptions == [k \in {} |-> None]

Option(key, val) == [k \in {key} |-> val]

\* options.get(key, default)
OptionsGet(options, key, default) ==
    IF key \in DOMAIN options THEN options[key] ELSE default

(***************************************************************************)
(* The response decoder.                                                   *)
(***************************************************************************)
\* truth value of "not x"
Falsy(x) ==
    CASE x.t = "None" -> TRUE
      [] x.t \in {"list", "tuple"} -> x.items = <<>>
      [] x.t = "bytes" -> x.b = <<>>
      [] x.t = "str" -> x.c = ""
      [] x.t = "int" -> x.n = 0
      [] x.t = "bool" -> ~x.bv
      [] OTHER -> FALSE

\* the outcome of consuming an iterator of casts: the items produced, the
\* number of casts applied and the exception that ended it, if any
Produced(out, casts, err) == [out |-> out, casts |-> casts, err |-> err]

\* items, then what the rest of the iterator produced
Then(items, rest) == Produced(items \o rest.out, 1 + rest.casts, rest.err)

RECURSIVE ZipCast(_, _, _)

\* variant: the pairs come out as (value, time)
ZipStepSwapped(f, xs, i, c) ==
    IF IsRaise(c) THEN Produced(<<>>, 1, c)
    ELSE IF i + 1 > Len(xs) THEN Produced(<<>>, 1, None)
    ELSE Then(<<PyTuple(<<xs[i + 1], c>>)>>, ZipCast(f, xs, i + 2))

\* one round of the zip, c being the cast of the timestamp drawn: the
\* value is drawn next, and the zip ends if the iterator is exhausted
ZipStep(f, xs, i, c) ==
    IF IsRaise(c) THEN Produced(<<>>, 1, c)
    ELSE IF i + 1 > Len(xs) THEN Produced(<<>>, 1, None)
    ELSE Then(<<PyTuple(<<c, xs[i + 1]>>)>>, ZipCast(f, xs, i + 2))

\* list(izip(imap(f, it), it)) over the one iterator it of xs, from
\* position i
ZipCast(f, xs, i) ==
    IF i > Len(xs) THEN Produced(<<>>, 0, None)
    ELSE ZipStep(f, xs, i, Apply(f, xs[i]))

\* the list built from the zip, or the exception of a cast
Zipped(z) == [ret |-> IF IsRaise(z.err) THEN z.err ELSE PyList(z.out), casts |-> z.casts]

\* timeseries_time_value_pairs with the number of casts it applied
TimeValuePairs(response, options) ==
    IF Falsy(response) THEN [ret |-> response, casts |-> 0]
    ELSE IF response.t \notin {"list", "tuple"} THEN [ret |-> Raise("TypeError"), casts |-> 0]
    ELSE Zipped(ZipCast(OptionsGet(options, "timestamp_cast_func", Function("int")),
                        response.items, 1))

timeseries_time_value_pairs(response, options) == TimeValuePairs(response, options).ret

(***************************************************************************)
(* The executor (StrictRedis.execute_command) as the adapter sees it: the  *)
(* transport either raises or yields the server's reply, and the reply is  *)
(* passed with the call's options to the callback registered for the       *)
(* command name.                                                           *)
(***************************************************************************)
OK == PyBytes(<<"O", "K">>)

bool_ok(response) ==
    CASE response.t = "bytes" -> PyBool(response.b = OK.b)
      [] response.t = "str" -> PyBool(response.c = "OK")
      [] OTHER -> PyBool(FALSE)

RESPONSE_CALLBACKS(command, response, options) ==
    CASE command \in {"TSADD", "TSREM"} -> bool_ok(response)
      [] command = "TSCARD" -> int(response)
      [] command \in {"TSLASTN", "TSRANGEBYTIME", "TSREVRANGEBYTIME"} ->
             timeseries_time_value_pairs(response, options)
      [] OTHER -> response

\* server is what the transport does when asked: an exception or a reply
execute_command(pieces, options, server) ==
    IF IsRaise(server) THEN server
    ELSE RESPONSE_CALLBACKS(pieces[1].c, server, options)

\* one executor invocation, as recorded in sent
Frame(pieces, options) == [args |-> pieces, options |-> options]

(***************************************************************************)
(* The adapter.  Each operation yields the frames it handed the executor   *)
(* (sent), the number of time_cast_func applications (casts) and what the  *)
(* caller gets (result).                                                   *)
(***************************************************************************)
\* variant: an exception of the executor is swallowed and None returned
InvokeMasking(pieces, options, casts, server) ==
    [sent   |-> <<Frame(pieces, options)>>,
     casts  |-> casts,
     result |-> IF IsRaise(server) THEN None
                ELSE execute_command(pieces, options, server)]

\* return self.execute_command(*pieces, **options)
Invoke(pieces, options, casts, server) ==
    [sent   |-> <<Frame(pieces, options)>>,
     casts  |-> casts,
     result |-> execute_command(pieces, options, server)]

\* an exception raised before the executor is reached
Fail(err, casts) == [sent |-> <<>>, casts |-> casts, result |-> err]

\* pieces.extend(z) followed by the executor call; an exception of a cast
\* ends the method while pieces is extended
Extend(pieces, z, options, server) ==
    IF IsRaise(z.err) THEN Fail(z.err, z.casts)
    ELSE Invoke(pieces \o z.out, options, z.casts, server)

RECURSIVE MapCast(_, _, _)

MapStep(f, xs, i, c) ==
    IF IsRaise(c) THEN Produced(<<>>, 1, c)
    ELSE Then(<<c>>, MapCast(f, xs, i + 1))

\* imap(f, xs) consumed from position i: casts in order, up to the first
\* that raises
MapCast(f, xs, i) ==
    IF i > Len(xs) THEN Produced(<<>>, 0, None)
    ELSE MapStep(f, xs, i, Apply(f, xs[i]))

RECURSIVE ChainZipCast(_, _, _)

\* variant: the cast is applied but the caller's time is what is emitted
ChainStepUncast(f, tv, i, c) ==
    IF IsRaise(c) THEN Produced(<<>>, 1, c)
    ELSE IF i + 1 > Len(tv) THEN Produced(<<>>, 1, None)
    ELSE Then(<<tv[i], tv[i + 1]>>, ChainZipCast(f, tv, i + 2))

\* one pair of the chain, c being the cast of the time tv[i]
ChainStep(f, tv, i, c) ==
    IF IsRaise(c) THEN Produced(<<>>, 1, c)
    ELSE IF i + 1 > Len(tv) THEN Produced(<<>>, 1, None)
    ELSE Then(<<c, tv[i + 1]>>, ChainZipCast(f, tv, i + 2))

\* chain.from_iterable(izip(imap(f, tv[0::2]), tv[1::2])) from position i
ChainZipCast(f, tv, i) ==
    IF i > Len(tv) THEN Produced(<<>>, 0, None)
    ELSE ChainStep(f, tv, i, Apply(f, tv[i]))

\* pieces.extend(...) of tsadd, by time_cast_func
TsaddPieces(times_and_values, time_cast_func) ==
    IF time_cast_func = None THEN Produced(times_and_values, 0, None)
    ELSE ChainZipCast(time_cast_func, times_and_values, 1)

\* variant: the parity of times_and_values is checked after the conversion
tsaddLateCheck(name, times_and_values, options, server) ==
    IF times_and_values # <<>>
    THEN IF Len(times_and_values) % 2 # 0
         THEN Fail(Raise("RedisError"),
                   TsaddPieces(times_and_values,
                               OptionsGet(options, "time_cast_func",
                                          DatetimeToTimestamp("UTC"))).casts)
         ELSE Extend(<<PyStr("TSADD"), name>>,
                     TsaddPieces(times_and_values,
                                 OptionsGet(options, "time_cast_func",
                                            DatetimeToTimestamp("UTC"))),
                     NoOptions, server)
    ELSE Invoke(<<PyStr("TSADD"), name>>, NoOptions, 0, server)

tsadd(name, times_and_values, options, server) ==
    IF times_and_values # <<>>
    THEN IF Len(times_and_values) % 2 # 0
         THEN Fail(Raise("RedisError"), 0)
         ELSE Extend(<<PyStr("TSADD"), name>>,
                     TsaddPieces(times_and_values,
                                 OptionsGet(options, "time_cast_func",
                                            DatetimeToTimestamp("UTC"))),
                     NoOptions, server)
    ELSE Invoke(<<PyStr("TSADD"), name>>, NoOptions, 0, server)

\* pieces.extend(...) of tsrem, by time_cast_func
TsremPieces(times, time_cast_func) ==
    IF time_cast_func = None THEN Produced(times, 0, None)
    ELSE MapCast(time_cast_func, times, 1)

tsrem(name, times, options, server) ==
    IF times # <<>>
    THEN Extend(<<PyStr("TSREM"), name>>,
                TsremPieces(times, OptionsGet(options, "time_cast_func",
                                              DatetimeToTimestamp("UTC"))),
                NoOptions, server)
    ELSE Invoke(<<PyStr("TSREM"), name>>, NoOptions, 0, server)

tscard(name, server) == Invoke(<<PyStr("TSCARD"), name>>, NoOptions, 0, server)

tsget(name, tm, time_cast_func, server) ==
    IF time_cast_func = None
    THEN Invoke(<<PyStr("TSGET"), name, tm>>, NoOptions, 0, server)
    ELSE Extend(<<PyStr("TSGET"), name>>, MapCast(time_cast_func, <<tm>>, 1),
                NoOptions, server)

tslastn(name, num, timestamp_cast_func, server) ==
    IF timestamp_cast_func = None
    THEN Invoke(<<PyStr("TSLASTN"), name, num>>,
                Option("timestamp_cast_func", Function("int")), 0, server)
    ELSE Invoke(<<PyStr("TSLASTN"), name, num>>,
                Option("timestamp_cast_func", timestamp_cast_func), 0, server)

LIMIT == [t |-> "token", token |-> "LIMIT"]

\* pieces.append(x)
Appended(x) == Produced(<<x>>, 0, None)

\* pieces.append(time_cast_func(tm))
AppendCast(time_cast_func, tm) == MapCast(time_cast_func, <<tm>>, 1)

\* the end of both range methods: the low bound is appended, then the high
\* bound, then the limit clause, and the executor is called with the
\* timestamp cast as option
RangeSend(pieces, lo, hi, limit, timestamp_cast_func, server) ==
    IF IsRaise(lo.err) THEN Fail(lo.err, lo.casts)
    ELSE IF IsRaise(hi.err) THEN Fail(hi.err, lo.casts + hi.casts)
    ELSE IF timestamp_cast_func = None
    THEN Invoke(pieces \o lo.out \o hi.out \o limit,
                Option("timestamp_cast_func", Function("int")),
                lo.casts + hi.casts, server)
    ELSE Invoke(pieces \o lo.out \o hi.out \o limit,
                Option("timestamp_cast_func", timestamp_cast_func),
                lo.casts + hi.casts, server)

\* variant: only None, not an infinite float, selects the sentinels
tsrangebytimeNoneOnly(name, tm_low, tm_high, time_cast_func, timestamp_cast_func, server) ==
    RangeSend(<<PyStr("TSRANGEBYTIME"), name>>,
              IF tm_low = None
              THEN Appended(m_inf)
              ELSE IF time_cast_func = None THEN Appended(tm_low)
              ELSE AppendCast(time_cast_func, tm_low),
              IF tm_high = None
              THEN Appended(p_inf)
              ELSE IF time_cast_func = None THEN Appended(tm_high)
              ELSE AppendCast(time_cast_func, tm_high),
              <<>>, timestamp_cast_func, server)

tsrangebytime(name, tm_low, tm_high, time_cast_func, timestamp_cast_func, server) ==
    RangeSend(<<PyStr("TSRANGEBYTIME"), name>>,
              IF tm_low = None \/ (IsFloat(tm_low) /\ isinf(tm_low))
              THEN Appended(m_inf)
              ELSE IF time_cast_func = None THEN Appended(tm_low)
              ELSE AppendCast(time_cast_func, tm_low),
              IF tm_high = None \/ (IsFloat(tm_high) /\ isinf(tm_high))
              THEN Appended(p_inf)
              ELSE IF time_cast_func = None THEN Appended(tm_high)
              ELSE AppendCast(time_cast_func, tm_high),
              <<>>, timestamp_cast_func, server)

\* variant: the LIMIT clause is appended when num is truthy ("if num:")
tsrevrangebytimeTruthy(name, tm_low, tm_high, num, time_cast_func, timestamp_cast_func, server) ==
    RangeSend(<<PyStr("TSREVRANGEBYTIME"), name>>,
              IF tm_low = None \/ (IsFloat(tm_low) /\ isinf(tm_low))
              THEN Appended(m_inf)
              ELSE IF time_cast_func = None THEN Appended(tm_low)
              ELSE AppendCast(time_cast_func, tm_low),
              IF tm_high = None \/ (IsFloat(tm_high) /\ isinf(tm_high))
              THEN Appended(p_inf)
              ELSE IF time_cast_func = None THEN Appended(tm_high)
              ELSE AppendCast(time_cast_func, tm_high),
              IF ~Falsy(num) THEN <<LIMIT, num>> ELSE <<>>,
              timestamp_cast_func, server)

tsrevrangebytime(name, tm_low, tm_high, num, time_cast_func, timestamp_cast_func, server) ==
    RangeSend(<<PyStr("TSREVRANGEBYTIME"), name>>,
              IF tm_low = None \/ (IsFloat(tm_low) /\ isinf(tm_low))
              THEN Appended(m_inf)
              ELSE IF time_cast_func = None THEN Appended(tm_low)
              ELSE AppendCast(time_cast_func, tm_low),
              IF tm_high = None \/ (IsFloat(tm_high) /\ isinf(tm_high))
              THEN Appended(p_inf)
              ELSE IF time_cast_func = None THEN Appended(tm_high)
              ELSE AppendCast(time_cast_func, tm_high),
              IF num # None THEN <<LIMIT, num>> ELSE <<>>,
              timestamp_cast_func, server)

(***************************************************************************)
(* The inputs the model draws from.                                        *)
(***************************************************************************)
MaxArgs == 4

MaxResp == 4

MaxTs == 4100

MaxTsDatetime == 1100

MaxEighths == 1200

RECURSIVE SeqsOfLen(_, _)
SeqsOfLen(S, k) ==
    IF k = 0 THEN {<<>>} ELSE {Append(xs, x) : xs \in SeqsOfLen(S, k - 1), x \in S}

SeqsUpTo(S, n) == UNION {SeqsOfLen(S, k) : k \in 0..n}

\* a keyword argument the caller leaves out
Absent == [t |-> "absent"]

\* a keyword parameter with a default
Arg(a, default) == IF a = Absent THEN default ELSE a

Names == {PyStr("cpu"), PyStr("mem")}

\* 1970-01-01 00:00:01.001 UTC
AwareTime == Datetime(1, 1000, "UTC")

\* 1970-01-01 01:00:02.5, naive
NaiveTime == Datetime(3602, 500000, "naive")

\* 1.5 s as a float: 3 * 2^51 * 2^-52
UnixTime == [t |-> "float", s |-> 1, m |-> <<0, 0, 0, 3072>>, e |-> -52]

\* a raw timestamp
RawTime == PyInt(1001)

\* what a caller passes as times and values
Elems == {AwareTime, NaiveTime, UnixTime, RawTime, PyStr("a")}

Bounds == {Absent, None, m_inf, p_inf, AwareTime, UnixTime, RawTime}

Nums == {Absent, None, PyInt(0), PyInt(5)}

TimeCasts ==
    {None, Function("unixtime_to_timestamp"), DatetimeToTimestamp("CET")}

TimestampCasts ==
    {None, Function("timestamp_to_unix"), TimestampToDatetime("None")}

TimeCastOptions == {NoOptions} \cup {Option("time_cast_func", f) : f \in TimeCasts}

Ts1001 == PyBytes(<<"1", "0", "0", "1">>)

ValA == PyBytes(<<"a">>)

\* what the transport can do for a command
TransportErrors == {Raise("ConnectionError"), Raise("ResponseError")}

Replies(command) ==
    TransportErrors \cup
    CASE command \in {"TSADD", "TSREM"} -> {OK}
      [] command = "TSCARD" -> {PyInt(2)}
      [] command = "TSGET" -> {None, ValA}
      [] OTHER -> {PyList(<<>>), PyList(<<Ts1001, ValA>>),
                   PyList(<<Ts1001, ValA, PyBytes(<<"-", "5">>), ValA>>)}

(***************************************************************************)
(* State.                                                                  *)
(***************************************************************************)
VARIABLES
    pc,        \* "ready": the caller may call; "returned": a call has ended
    call,      \* the call made: operation and arguments
    sent,      \* the frames the call handed to the executor, in order
    casts,     \* how often the call applied its cast function
    served,    \* what the transport did for the call (None when not asked)
    result,    \* what the caller got: a value or an exception
    defaults   \* the converter instances bound as default arguments

vars == <<pc, call, sent, casts, served, result, defaults>>

\* the default arguments, evaluated once when the class body runs
Defaults0 ==
    [tsget_time_cast_func                 |-> DatetimeToTimestamp("UTC"),
     tslastn_timestamp_cast_func          |-> TimestampToDatetime("UTC"),
     tsrangebytime_time_cast_func         |-> DatetimeToTimestamp("UTC"),
     tsrangebytime_timestamp_cast_func    |-> TimestampToDatetime("UTC"),
     tsrevrangebytime_time_cast_func      |-> DatetimeToTimestamp("UTC"),
     tsrevrangebytime_timestamp_cast_func |-> TimestampToDatetime("UTC")]

NoCall == [op |-> "none"]

Init ==
    /\ pc = "ready"
    /\ call = NoCall
    /\ sent = <<>>
    /\ casts = 0
    /\ served = None
    /\ result = None
    /\ defaults = Defaults0

\* a default instance after the calls made on it with each of xs
RECURSIVE AfterCalls(_, _)
AfterCalls(self, xs) ==
    IF xs = <<>> THEN self ELSE AfterCalls(SelfAfterCall(self, Head(xs)), Tail(xs))

\* the timestamps of a reply that reaches the decoder
Timestamps(server) ==
    IF server.t = "list"
    THEN [i \in 1..((Len(server.items) + 1) \div 2) |-> server.items[2 * i - 1]]
    ELSE <<>>

\* the bounds a range command casts
CastBounds(tm_low, tm_high) ==
    (IF tm_low = None \/ isinf(tm_low) THEN <<>> ELSE <<tm_low>>)
    \o (IF tm_high = None \/ isinf(tm_high) THEN <<>> ELSE <<tm_high>>)

\* the default instances after a call that left f (the time cast, used on
\* the times xs) or g (the timestamp cast, used by the decoder) to the
\* defaults of the sites named; invoked: the executor was reached
DefaultsAfter(d, fsite, f, xs, gsite, g, invoked, server) ==
    [k \in DOMAIN d |->
        IF k = fsite /\ f = Absent THEN AfterCalls(d[k], xs)
        ELSE IF k = gsite /\ g = Absent /\ invoked
        THEN AfterCalls(d[k], Timestamps(server))
        ELSE d[k]]

\* the call c ended with outcome r, the transport doing server if asked
Returned(c, r, server, d) ==
    /\ pc' = "returned"
    /\ call' = c
    /\ sent' = r.sent
    /\ casts' = r.casts
    /\ result' = r.result
    /\ served' = IF r.sent = <<>> THEN None ELSE server
    /\ defaults' = d

TsAdd ==
    /\ pc = "ready"
    /\ \E name \in Names, tv \in SeqsUpTo(Elems, MaxArgs),
          options \in TimeCastOptions, server \in Replies("TSADD") :
          Returned([op |-> "tsadd", name |-> name, times_and_values |-> tv,
                    options |-> options],
                   tsadd(name, tv, options, server), server, defaults)

TsRem ==
    /\ pc = "ready"
    /\ \E name \in Names, times \in SeqsUpTo(Elems, MaxArgs - 1),
          options \in TimeCastOptions, server \in Replies("TSREM") :
          Returned([op |-> "tsrem", name |-> name, times |-> times, options |-> options],
                   tsrem(name, times, options, server), server, defaults)

TsCard ==
    /\ pc = "ready"
    /\ \E name \in Names, server \in Replies("TSCARD") :
          Returned([op |-> "tscard", name |-> name], tscard(name, server), server, defaults)

TsGet ==
    /\ pc = "ready"
    /\ \E name \in Names, tm \in Elems, f \in TimeCasts \cup {Absent},
          server \in Replies("TSGET") :
          Returned([op |-> "tsget", name |-> name, tm |-> tm, time_cast_func |-> f],
                   tsget(name, tm, Arg(f, defaults.tsget_time_cast_func), server),
                   server,
                   DefaultsAfter(defaults, "tsget_time_cast_func", f, <<tm>>,
                                 "", Absent, FALSE, server))

TsLastN ==
    /\ pc = "ready"
    /\ \E name \in Names, num \in {PyInt(0), PyInt(5)}, g \in TimestampCasts \cup {Absent},
          server \in Replies("TSLASTN") :
          Returned([op |-> "tslastn", name |-> name, num |-> num,
                    timestamp_cast_func |-> g],
                   tslastn(name, num, Arg(g, defaults.tslastn_timestamp_cast_func), server),
                   server,
                   DefaultsAfter(defaults, "", Absent, <<>>,
                                 "tslastn_timestamp_cast_func", g, TRUE, server))

\* what TsRangeByTime does once the method has run with outcome r
RangeReturned(c, r, server) ==
    Returned(c, r, server,
             DefaultsAfter(defaults, "tsrangebytime_time_cast_func", c.time_cast_func,
                           CastBounds(Arg(c.tm_low, None), Arg(c.tm_high, None)),
                           "tsrangebytime_timestamp_cast_func", c.timestamp_cast_func,
                           r.sent # <<>>, server))

TsRangeByTime ==
    /\ pc = "ready"
    /\ \E name \in Names, tm_low \in Bounds, tm_high \in Bounds,
          f \in TimeCasts \cup {Absent}, g \in TimestampCasts \cup {Absent},
          server \in Replies("TSRANGEBYTIME") :
          RangeReturned([op |-> "tsrangebytime", name |-> name, tm_low |-> tm_low,
                         tm_high |-> tm_high, time_cast_func |-> f,
                         timestamp_cast_func |-> g],
                        tsrangebytime(name, Arg(tm_low, None), Arg(tm_high, None),
                            Arg(f, defaults.tsrangebytime_time_cast_func),
                            Arg(g, defaults.tsrangebytime_timestamp_cast_func), server),
                        server)

\* what TsRevRangeByTime does once the method has run with outcome r
RevRangeReturned(c, r, server) ==
    Returned(c, r, server,
             DefaultsAfter(defaults, "tsrevrangebytime_time_cast_func", c.time_cast_func,
                           CastBounds(Arg(c.tm_low, None), Arg(c.tm_high, None)),
                           "tsrevrangebytime_timestamp_cast_func", c.timestamp_cast_func,
                           r.sent # <<>>, server))

TsRevRangeByTime ==
    /\ pc = "ready"
    /\ \E name \in Names, tm_low \in Bounds, tm_high \in Bounds, num \in Nums,
          f \in TimeCasts \cup {Absent}, g \in TimestampCasts \cup {Absent},
          server \in Replies("TSREVRANGEBYTIME") :
          RevRangeReturned([op |-> "tsrevrangebytime", name |-> name, tm_low |-> tm_low,
                            tm_high |-> tm_high, num |-> num, time_cast_func |-> f,
                            timestamp_cast_func |-> g],
                           tsrevrangebytime(name, Arg(tm_low, None), Arg(tm_high, None),
                               Arg(num, None),
                               Arg(f, defaults.tsrevrangebytime_time_cast_func),
                               Arg(g, defaults.tsrevrangebytime_timestamp_cast_func),
                               server),
                           server)

\* the caller takes the result; the adapter holds nothing of the call
Resume ==
    /\ pc = "returned"
    /\ pc' = "ready"
    /\ call' = NoCall
    /\ sent' = <<>>
    /\ casts' = 0
    /\ served' = None
    /\ result' = None
    /\ UNCHANGED defaults

Next ==
    \/ TsAdd
    \/ TsRem
    \/ TsCard
    \/ TsGet
    \/ TsLastN
    \/ TsRangeByTime
    \/ TsRevRangeByTime
    \/ Resume

Spec == Init /\ [][Next]_vars

(***************************************************************************)
(* The decoder and the converters on their own: the initial state holds    *)
(* an input and one action applies the function to it.                     *)
(***************************************************************************)
RespItems == {Ts1001, PyInt(2002), ValA}

DecodeOptions ==
    {NoOptions} \cup
    {Option("timestamp_cast_func", g) :
        g \in {Function("int"), Function("timestamp_to_unix"), TimestampToDatetime("CET")}}

Responses ==
    {None, PyBytes(<<>>), PyInt(0)} \cup {PyList(xs) : xs \in SeqsUpTo(RespItems, MaxResp)}

Idle(c) ==
    /\ pc = "input"
    /\ call = c
    /\ sent = <<>>
    /\ casts = 0
    /\ served = None
    /\ result = None
    /\ defaults = Defaults0

\* the function named op has been applied to the input and gave ret
Applied(op, ret, n) ==
    /\ pc' = "returned"
    /\ call' = [call EXCEPT !.op = op]
    /\ result' = ret
    /\ casts' = n
    /\ UNCHANGED <<sent, served, defaults>>

InitDecode ==
    \E response \in Responses, options \in DecodeOptions :
        Idle([op |-> "response", response |-> response, options |-> options])

Decoded(r) == Applied("timeseries_time_value_pairs", r.ret, r.casts)

Decode ==
    /\ pc = "input"
    /\ call.op = "response"
    /\ Decoded(TimeValuePairs(call.response, call.options))

NextDecode == Decode

SpecDecode == InitDecode /\ [][NextDecode]_vars

InitDatetime ==
    \E ts \in (0 - MaxTsDatetime)..MaxTsDatetime, tz1 \in Zones, tz2 \in Zones :
        Idle([op |-> "timestamp", ts |-> PyInt(ts), tz1 |-> tz1, tz2 |-> tz2])

\* DatetimeToTimestamp(tz1)(TimestampToDatetime(tz2)(ts))
DatetimeRoundTrip ==
    /\ pc = "input"
    /\ call.op = "timestamp"
    /\ Applied("datetime_roundtrip",
               DatetimeToTimestampCall(DatetimeToTimestamp(call.tz1),
                   TimestampToDatetimeCall(TimestampToDatetime(call.tz2), call.ts)),
               0)

NextDatetime == DatetimeRoundTrip

SpecDatetime == InitDatetime /\ [][NextDatetime]_vars

\* unix times k/8 ms, as the floats nearest to them
UnixTimes ==
    {BigTrueDiv(Sign(k), BigFromInt(Abs(k)), 8000) : k \in (0 - MaxEighths)..MaxEighths}

InitUnix ==
    \/ \E ts \in (0 - MaxTs)..MaxTs : Idle([op |-> "timestamp", ts |-> PyInt(ts)])
    \/ \E tm \in UnixTimes : Idle([op |-> "unixtime", tm |-> tm])

\* unixtime_to_timestamp(timestamp_to_unix(ts))
TimestampRoundTrip ==
    /\ pc = "input"
    /\ call.op = "timestamp"
    /\ Applied("timestamp_roundtrip", unixtime_to_timestamp(timestamp_to_unix(call.ts)), 0)

\* timestamp_to_unix(unixtime_to_timestamp(tm))
UnixTimeRoundTrip ==
    /\ pc = "input"
    /\ call.op = "unixtime"
    /\ Applied("unixtime_roundtrip", timestamp_to_unix(unixtime_to_timestamp(call.tm)), 0)

NextUnix == TimestampRoundTrip \/ UnixTimeRoundTrip

SpecUnix == InitUnix /\ [][NextUnix]_vars

(***************************************************************************)
(* Properties.                                                             *)
(***************************************************************************)
\* c(x) for a cast c that may be None
CastOrRaw(f, x) == IF f = None THEN x ELSE Apply(f, x)

Odd(n) == n % 2 = 1

NoneRaises(xs) == \A i \in 1..Len(xs) : ~IsRaise(xs[i])

\* the time_cast_func a tsadd or tsrem call uses
OptionCast(options) ==
    IF "time_cast_func" \in DOMAIN options THEN options["time_cast_func"]
    ELSE DatetimeToTimestamp("UTC")

\* the argument list ['TSADD', name, c(t1), v1, ..., c(tn), vn]
TsaddArgs(name, tv, f) ==
    <<PyStr("TSADD"), name>>
    \o [i \in 1..Len(tv) |-> IF Odd(i) THEN CastOrRaw(f, tv[i]) ELSE tv[i]]

SentExactly(args, n) ==
    NoneRaises(args) => sent = <<Frame(args, NoOptions)>> /\ Len(sent[1].args) = n

\* C1: a tsadd call with an even number 2n of times and values, all of
\* whose times the cast converts, hands the executor exactly one frame,
\* ['TSADD', name, c(t1), v1, ..., c(tn), vn], of length 2 + 2n: converted
\* times at the time positions, the caller's values unchanged at the value
\* positions, in the caller's order.
C1_TsaddFrame ==
    (pc = "returned" /\ call.op = "tsadd" /\ ~Odd(Len(call.times_and_values))) =>
        SentExactly(TsaddArgs(call.name, call.times_and_values, OptionCast(call.options)),
                    2 + Len(call.times_and_values))

C1_Witness ==
    /\ pc = "returned"
    /\ call.op = "tsadd"
    /\ call.times_and_values = <<NaiveTime, PyStr("a"), AwareTime, RawTime>>
    /\ call.options = NoOptions
    /\ Len(sent) = 1
    /\ sent[1].args[3] = PyInt(3602500)
    /\ sent[1].args[4] = PyStr("a")
    /\ sent[1].args[6] = RawTime

\* C2: a tsadd call with an odd number of times and values raises the
\* argument error, whatever time_cast_func is, without invoking the
\* executor and without applying time_cast_func to any element.
C2_OddRaisesLocally ==
    (pc = "returned" /\ call.op = "tsadd" /\ Odd(Len(call.times_and_values))) =>
        /\ result = Raise("RedisError")
        /\ sent = <<>>
        /\ casts = 0

C2_Witness ==
    /\ pc = "returned"
    /\ call.op = "tsadd"
    /\ call.times_and_values = <<UnixTime, PyStr("a"), UnixTime>>
    /\ call.options = Option("time_cast_func", Function("unixtime_to_timestamp"))
    /\ result = Raise("RedisError")

RangeOps == {"tsrangebytime", "tsrevrangebytime"}

CommandName(op) == IF op = "tsrangebytime" THEN "TSRANGEBYTIME" ELSE "TSREVRANGEBYTIME"

\* the bound the claim expects: the sentinel for a missing or infinite
\* bound, else the cast bound
ExpectedBound(b, f, sentinel) ==
    IF b \in {Absent, None, m_inf, p_inf} THEN sentinel ELSE CastOrRaw(f, b)

SentStartsWith(prefix) ==
    NoneRaises(prefix) =>
        /\ Len(sent) = 1
        /\ Len(sent[1].args) >= Len(prefix)
        /\ SubSeq(sent[1].args, 1, Len(prefix)) = prefix

SentLike(ref, clause) ==
    IF ref = <<>> THEN sent = <<>>
    ELSE /\ Len(sent) = 1
         /\ sent[1].args = <<PyStr("TSREVRANGEBYTIME")>> \o Tail(ref[1].args) \o clause

\* C4: tsrevrangebytime hands the executor the arguments tsrangebytime
\* builds for the same name, bounds and time_cast_func, under the command
\* name TSREVRANGEBYTIME, followed by LIMIT num when num is not None
\* (0 included) and by nothing when num is None.
C4_LimitClause ==
    (pc = "returned" /\ call.op = "tsrevrangebytime") =>
        SentLike(tsrangebytime(call.name, Arg(call.tm_low, None), Arg(call.tm_high, None),
                               Arg(call.time_cast_func, DatetimeToTimestamp("UTC")),
                               Arg(call.timestamp_cast_func, TimestampToDatetime("UTC")),
                               PyList(<<>>)).sent,
                 IF call.num \in {Absent, None} THEN <<>> ELSE <<LIMIT, call.num>>)

C4_Witness ==
    /\ pc = "returned"
    /\ call.op = "tsrevrangebytime"
    /\ call.num = PyInt(0)
    /\ call.tm_low = RawTime
    /\ call.tm_high = None
    /\ call.time_cast_func = None
    /\ Len(sent) = 1
    /\ sent[1].args
           = <<PyStr("TSREVRANGEBYTIME"), call.name, RawTime, p_inf, LIMIT, PyInt(0)>>

\* the cast the decoder uses: the option, or int when it is absent
DecodeCast(options) ==
    IF "timestamp_cast_func" \in DOMAIN options THEN options["timestamp_cast_func"]
    ELSE Function("int")

\* the casts of the timestamps t1, ..., tn of the flat response xs
CastTimestamps(g, xs) == [i \in 1..(Len(xs) \div 2) |-> Apply(g, xs[2 * i - 1])]

PairsOf(ts, xs) ==
    NoneRaises(ts) =>
        /\ result = PyList([i \in 1..Len(ts) |-> PyTuple(<<ts[i], xs[2 * i]>>)])
        /\ casts = Len(ts)

\* C5: timeseries_time_value_pairs returns a falsy response unchanged and
\* applies no cast; for a flat response [t1, v1, ..., tn, vn] whose
\* timestamps the cast converts it returns the n pairs (cast(ti), vi) in
\* the order of the response, casting the n timestamps only.
C5_DecodePairs ==
    (pc = "returned" /\ call.op = "timeseries_time_value_pairs") =>
        IF call.response \in {None, PyList(<<>>), PyBytes(<<>>), PyInt(0)}
        THEN result = call.response /\ casts = 0
        ELSE ~Odd(Len(call.response.items)) =>
                 PairsOf(CastTimestamps(DecodeCast(call.options), call.response.items),
                         call.response.items)

C5_Witness ==
    /\ pc = "returned"
    /\ call.op = "timeseries_time_value_pairs"
    /\ call.response = PyList(<<Ts1001, ValA, PyInt(2002), Ts1001>>)
    /\ call.options = NoOptions
    /\ result = PyList(<<PyTuple(<<PyInt(1001), ValA>>), PyTuple(<<PyInt(2002), Ts1001>>)>>)

AdapterOps ==
    {"tsadd", "tsrem", "tscard", "tsget", "tslastn", "tsrangebytime", "tsrevrangebytime"}

\* the times a call converts with its time_cast_func
Converted(c) ==
    CASE c.op = "tsadd" ->
             {c.times_and_values[i] : i \in {j \in 1..Len(c.times_and_values) : Odd(j)}}
      [] c.op = "tsrem" -> {c.times[i] : i \in 1..Len(c.times)}
      [] c.op = "tsget" -> {c.tm}
      [] c.op \in RangeOps -> {c.tm_low, c.tm_high} \ {Absent, None, m_inf, p_inf}
      [] OTHER -> {}

TimeCastOf(c) ==
    CASE c.op \in {"tsadd", "tsrem"} -> OptionCast(c.options)
      [] c.op \in {"tsget"} \cup RangeOps -> Arg(c.time_cast_func, DatetimeToTimestamp("UTC"))
      [] OTHER -> None

\* the call fails on its arguments, before the executor is reached
ArgumentError(c) ==
    \/ c.op = "tsadd" /\ Odd(Len(c.times_and_values))
    \/ \E x \in Converted(c) : IsRaise(CastOrRaw(TimeCastOf(c), x))

\* C6: an adapter operation that does not fail on its arguments invokes
\* the executor exactly once and gives the caller what that invocation
\* gave: an exception of the executor reaches the caller as it is.
C6_OneInvocation ==
    (pc = "returned" /\ call.op \in AdapterOps /\ ~ArgumentError(call)) =>
        /\ Len(sent) = 1
        /\ result = execute_command(sent[1].args, sent[1].options, served)
        /\ IsRaise(served) => result = served

C6_Witness ==
    /\ pc = "returned"
    /\ call.op = "tsrevrangebytime"
    /\ served = Raise("ConnectionError")
    /\ result = Raise("ConnectionError")
    /\ Len(sent) = 1

\* C7: casting a timestamp to a datetime in any zone and back, with any
\* zone for naive datetimes, yields the timestamp.
C7_DatetimeRoundTrip ==
    (pc = "returned" /\ call.op = "datetime_roundtrip") => result = call.ts

\* the float nearest to tm truncated toward zero to whole milliseconds
TruncatedToMillis(tm) ==
    IF tm.m = <<>> THEN FZero
    ELSE BigTrueDiv(tm.s,
                    IF tm.e >= 0 THEN BigShl(BigMul(tm.m, BigFromInt(1000)), tm.e)
                    ELSE BigShr(BigMul(tm.m, BigFromInt(1000)), 0 - tm.e),
                    1000)

\* C8: unixtime_to_timestamp(timestamp_to_unix(ts)) is ts, and
\* timestamp_to_unix(unixtime_to_timestamp(tm)) is tm truncated toward zero
\* to whole milliseconds.
C8_UnixRoundTrip ==
    /\ (pc = "returned" /\ call.op = "timestamp_roundtrip") => result = call.ts
    /\ (pc = "returned" /\ call.op = "unixtime_roundtrip") =>
           result = TruncatedToMillis(call.tm)

\* C9: in a range command the -inf sentinel stands in the low position
\* exactly when tm_low is None or -inf, and the inf sentinel in the high
\* position exactly when tm_high is None or inf.
C9_SentinelExactly ==
    (pc = "returned" /\ call.op \in RangeOps /\ sent # <<>>) =>
        /\ sent[1].args[3] = m_inf <=> call.tm_low \in {Absent, None, m_inf}
        /\ sent[1].args[4] = p_inf <=> call.tm_high \in {Absent, None, p_inf}

\* the frames the call c hands the executor on a fresh adapter
FreshSent(c) ==
    CASE c.op = "tsadd" -> tsadd(c.name, c.times_and_values, c.options, OK).sent
      [] c.op = "tsrem" -> tsrem(c.name, c.times, c.options, OK).sent
      [] c.op = "tscard" -> tscard(c.name, OK).sent
      [] c.op = "tsget" ->
             tsget(c.name, c.tm, Arg(c.time_cast_func, Defaults0.tsget_time_cast_func),
                   OK).sent
      [] c.op = "tslastn" ->
             tslastn(c.name, c.num,
                     Arg(c.timestamp_cast_func, Defaults0.tslastn_timestamp_cast_func),
                     OK).sent
      [] c.op = "tsrangebytime" ->
             tsrangebytime(c.name, Arg(c.tm_low, None), Arg(c.tm_high, None),
                 Arg(c.time_cast_func, Defaults0.tsrangebytime_time_cast_func),
                 Arg(c.timestamp_cast_func, Defaults0.tsrangebytime_timestamp_cast_func),
                 OK).sent
      [] c.op = "tsrevrangebytime" ->
             tsrevrangebytime(c.name, Arg(c.tm_low, None), Arg(c.tm_high, None),
                 Arg(c.num, None),
                 Arg(c.time_cast_func, Defaults0.tsrevrangebytime_time_cast_func),
                 Arg(c.timestamp_cast_func, Defaults0.tsrevrangebytime_timestamp_cast_func),
                 OK).sent
      [] OTHER -> <<>>

\* C10: whatever calls came before, a call hands the executor the frames
\* the same call hands it on a fresh adapter, and the converter instances
\* bound as default arguments are as they were built.
C10_NoStateBetweenCalls ==
    /\ defaults = Defaults0
    /\ pc = "returned" => sent = FreshSent(call)

C10_Witness ==
    /\ pc = "returned"
    /\ call.op = "tsget"
    /\ call.tm = NaiveTime
    /\ call.time_cast_func = Absent
    /\ Len(sent) = 1
    /\ sent[1].args[3] = PyInt(3602500)

====
